---- MODULE Spec2Model ----
(***************************************************************************)
(* Model of the Twitter vocabulary monitor (upload-sample-data.js).        *)
(*                                                                         *)
(* Strings are sequences of UTF-16 code units (all characters used are in  *)
(* the BMP), so the regular expressions of the source are modelled on the  *)
(* real character classes.                                                 *)
(***************************************************************************)
EXTENDS Integers, Sequences, FiniteSets

(***************************************************************************)
(* Character classes                                                       *)
(***************************************************************************)

\* [a-zA-Z]
IsLatin(c) == (c >= 65 /\ c <= 90) \/ (c >= 97 /\ c <= 122)

\* \w  = [A-Za-z0-9_]
IsWord(c) == IsLatin(c) \/ (c >= 48 /\ c <= 57) \/ c = 95

\* \s, and the characters String.prototype.trim strips (WhiteSpace and
\* LineTerminator of ECMAScript)
IsSpace(c) ==
    \/ (c >= 9 /\ c <= 13)
    \/ c \in {32, 160, 5760, 8232, 8233, 8239, 8287, 12288, 65279}
    \/ (c >= 8192 /\ c <= 8202)

\* variant of IsJapanese whose first range starts at U+3000 (the CJK symbols
\* and punctuation block) instead of U+3040
IsJapanese_Wide(c) ==
    \/ (c >= 12288 /\ c <= 12447)
    \/ (c >= 12448 /\ c <= 12543)
    \/ (c >= 19968 /\ c <= 40879)

\* [U+3040-U+309F U+30A0-U+30FF U+4E00-U+9FAF]
IsJapanese(c) ==
    \/ (c >= 12352 /\ c <= 12447)
    \/ (c >= 12448 /\ c <= 12543)
    \/ (c >= 19968 /\ c <= 40879)

\* neither a word character, nor whitespace, nor target script: the ASCII
\* punctuation of the inputs
IsPunct(c) == c >= 33 /\ c <= 126 /\ ~IsWord(c)

(***************************************************************************)
(* String helpers                                                          *)
(***************************************************************************)

\* String.prototype.substring(from, to), 0-based, end exclusive
Substring(s, from, to) == SubSeq(s, from + 1, to)

\* does the literal lit occur in s at 0-based offset i
LiteralAt(s, i, lit) ==
    /\ i + Len(lit) <= Len(s)
    /\ \A k \in 1..Len(lit) : s[i + k] = lit[k]

\* length of the longest run of non-whitespace from 0-based offset i (\S+)
RECURSIVE NonSpaceRun(_, _)
NonSpaceRun(s, i) ==
    IF i < Len(s) /\ ~IsSpace(s[i + 1]) THEN 1 + NonSpaceRun(s, i + 1) ELSE 0

\* length of the longest run of word characters from 0-based offset i (\w+)
RECURSIVE WordRun(_, _)
WordRun(s, i) ==
    IF i < Len(s) /\ IsWord(s[i + 1]) THEN 1 + WordRun(s, i + 1) ELSE 0

\* String.prototype.trim
RECURSIVE TrimStart(_)
TrimStart(s) ==
    IF s # <<>> /\ IsSpace(Head(s)) THEN TrimStart(Tail(s)) ELSE s

RECURSIVE TrimEnd(_)
TrimEnd(s) ==
    IF s # <<>> /\ IsSpace(s[Len(s)]) THEN TrimEnd(SubSeq(s, 1, Len(s) - 1))
    ELSE s

Trim(s) == TrimEnd(TrimStart(s))

\* RegExp.prototype.test for a one-character class
TestLatin(s) == \E k \in 1..Len(s) : IsLatin(s[k])
TestJapanese(s) == \E k \in 1..Len(s) : IsJapanese(s[k])

(***************************************************************************)
(* Preprocessing: the three global replaces and the trim                   *)
(***************************************************************************)

HTTP == <<104, 116, 116, 112>>
SLASHES == <<58, 47, 47>>

\* length of the match of /https?:\/\/\S+/ at 0-based offset i, 0 if none
UrlMatchLen(s, i) ==
    IF ~LiteralAt(s, i, HTTP) THEN 0
    ELSE LET k == IF LiteralAt(s, i + 4, <<115>>) THEN i + 5 ELSE i + 4
         IN  IF LiteralAt(s, k, SLASHES) /\ NonSpaceRun(s, k + 3) > 0
             THEN (k + 3 - i) + NonSpaceRun(s, k + 3)
             ELSE 0

\* text.replace(/https?:\/\/\S+/g, '') scanning from 0-based offset i
RECURSIVE ReplaceUrls(_, _)
ReplaceUrls(s, i) ==
    IF i >= Len(s) THEN <<>>
    ELSE LET n == UrlMatchLen(s, i)
         IN  IF n > 0 THEN ReplaceUrls(s, i + n)
             ELSE <<s[i + 1]>> \o ReplaceUrls(s, i + 1)

\* length of the match of /<marker>\w+/ at 0-based offset i, 0 if none
TagMatchLen(s, i, marker) ==
    IF i < Len(s) /\ s[i + 1] = marker /\ WordRun(s, i + 1) > 0
    THEN 1 + WordRun(s, i + 1)
    ELSE 0

\* variant of ReplaceTags without the g flag: only the first match is removed
RECURSIVE ReplaceTags_First(_, _, _)
ReplaceTags_First(s, i, marker) ==
    IF i >= Len(s) THEN <<>>
    ELSE LET n == TagMatchLen(s, i, marker)
         IN  IF n > 0 THEN SubSeq(s, i + n + 1, Len(s))
             ELSE <<s[i + 1]>> \o ReplaceTags_First(s, i + 1, marker)

\* text.replace(/@\w+/g, '') (marker 64) and text.replace(/#\w+/g, '')
\* (marker 35) scanning from 0-based offset i
RECURSIVE ReplaceTags(_, _, _)
ReplaceTags(s, i, marker) ==
    IF i >= Len(s) THEN <<>>
    ELSE LET n == TagMatchLen(s, i, marker)
         IN  IF n > 0 THEN ReplaceTags(s, i + n, marker)
             ELSE <<s[i + 1]>> \o ReplaceTags(s, i + 1, marker)

RemoveUrls(s) == ReplaceUrls(s, 0)
RemoveMentions(s) == ReplaceTags(s, 0, 64)
RemoveHashtags(s) == ReplaceTags(s, 0, 35)

\* the three removals without the trim
StripAll(s) == RemoveHashtags(RemoveMentions(RemoveUrls(s)))

\* const cleanText = text.replace(..).replace(..).replace(..).trim()
CleanText(s) == Trim(StripAll(s))

(***************************************************************************)
(* The extractor, api/check-tweets.js (second version)                     *)
(***************************************************************************)

Null == [kind |-> "null"]
TypeError == [kind |-> "TypeError"]
Pair(e, j) == [kind |-> "pair", english |-> e, japanese |-> j]

\* 0-based index of the first character equal or after offset i that is in
\* the target-script class, Len(s) if there is none
RECURSIVE FirstJapanese(_, _)
FirstJapanese(s, i) ==
    IF i >= Len(s) \/ IsJapanese(s[i + 1]) THEN i ELSE FirstJapanese(s, i + 1)

\* variant of MatchJapanese that reports the last target-script character
MatchJapanese_Last(s) ==
    IF \E k \in 1..Len(s) : IsJapanese(s[k])
    THEN [index |-> (CHOOSE k \in 1..Len(s) :
                        /\ IsJapanese(s[k])
                        /\ \A l \in (k + 1)..Len(s) : ~IsJapanese(s[l])) - 1]
    ELSE Null

\* cleanText.match(/[U+3040-U+309F U+30A0-U+30FF U+4E00-U+9FAF]/): a match
\* object with its index, or null
MatchJapanese(s) ==
    IF FirstJapanese(s, 0) < Len(s) THEN [index |-> FirstJapanese(s, 0)]
    ELSE Null

\* variant of SplitAndValidate that splits one character too late
SplitAndValidate_OffByOne(cleanText, m) ==
    IF m = Null THEN TypeError
    ELSE LET englishPart == Trim(Substring(cleanText, 0, m.index + 1))
             japanesePart == Trim(Substring(cleanText, m.index + 1,
                                            Len(cleanText)))
         IN  IF TestLatin(englishPart) /\ TestJapanese(japanesePart)
                /\ englishPart # <<>> /\ japanesePart # <<>>
             THEN Pair(englishPart, japanesePart)
             ELSE Null

\* variant of SplitAndValidate that does not test the term for a Latin letter
SplitAndValidate_NoLatinCheck(cleanText, m) ==
    IF m = Null THEN TypeError
    ELSE LET englishPart == Trim(Substring(cleanText, 0, m.index))
             japanesePart == Trim(Substring(cleanText, m.index,
                                            Len(cleanText)))
         IN  IF TestJapanese(japanesePart)
                /\ englishPart # <<>> /\ japanesePart # <<>>
             THEN Pair(englishPart, japanesePart)
             ELSE Null

\* variant of SplitAndValidate that does not trim the two parts
SplitAndValidate_NoTrim(cleanText, m) ==
    IF m = Null THEN TypeError
    ELSE LET englishPart == Substring(cleanText, 0, m.index)
             japanesePart == Substring(cleanText, m.index, Len(cleanText))
         IN  IF TestLatin(englishPart) /\ TestJapanese(japanesePart)
                /\ englishPart # <<>> /\ japanesePart # <<>>
             THEN Pair(englishPart, japanesePart)
             ELSE Null

\* the split and the validation, on the cleaned text and its match object;
\* reading .index of null throws a TypeError
SplitAndValidate(cleanText, m) ==
    IF m = Null THEN TypeError
    ELSE LET japaneseStartIndex == m.index
             englishPart == Trim(Substring(cleanText, 0, japaneseStartIndex))
             japanesePart == Trim(Substring(cleanText, japaneseStartIndex,
                                            Len(cleanText)))
             hasEnglish == TestLatin(englishPart)
             hasJapanese == TestJapanese(japanesePart)
         IN  IF hasEnglish /\ hasJapanese
                /\ englishPart # <<>> /\ japanesePart # <<>>
             THEN Pair(englishPart, japanesePart)
             ELSE Null

\* variant of parseVocabulary without the test of the match object
parseVocabulary_NoGuard(text) ==
    SplitAndValidate(CleanText(text), MatchJapanese(CleanText(text)))

parseVocabulary(text) ==
    LET cleanText == CleanText(text)
        japaneseStartMatch == MatchJapanese(cleanText)
    IN  IF japaneseStartMatch = Null THEN Null
        ELSE SplitAndValidate(cleanText, japaneseStartMatch)

(***************************************************************************)
(* The extractor of twitter-monitor-server-env.js                          *)
(***************************************************************************)

parseVocabularyMonitor(text) ==
    LET cleanText == CleanText(text)
        hasEnglish == TestLatin(cleanText)
        hasJapanese == TestJapanese(cleanText)
        japaneseMatch == MatchJapanese(cleanText)
    IN  IF ~hasEnglish \/ ~hasJapanese THEN Null
        ELSE IF japaneseMatch = Null THEN Null
        ELSE LET japaneseStart == japaneseMatch.index
                 english == Trim(Substring(cleanText, 0, japaneseStart))
                 japanese == Trim(Substring(cleanText, japaneseStart,
                                            Len(cleanText)))
             IN  IF english # <<>> /\ japanese # <<>>
                 THEN Pair(english, japanese)
                 ELSE Null

(***************************************************************************)
(* The extractor of the first api/check-tweets.js (pattern-based)          *)
(***************************************************************************)

\* the characters that . does not match: the LineTerminator of ECMAScript
IsLineTerminator(c) == c = 10 \/ c = 13 \/ c = 8232 \/ c = 8233

\* .+ matches exactly the 1-based positions from..to of s
DotPlus(s, from, to) ==
    /\ from <= to
    /\ \A k \in from..to : ~IsLineTerminator(s[k])

\* the lengths that the separator can have after a first group of i
\* characters for the rest of the pattern to match: whitespace only, at most
\* maxSep characters, and (.+)$ matches what follows
SepLengths(s, i, maxSep) ==
    {n \in 1..maxSep :
        /\ i + n < Len(s)
        /\ \A k \in (i + 1)..(i + n) : IsSpace(s[k])
        /\ DotPlus(s, i + n + 1, Len(s))}

\* the first-group lengths with which /^(.+?)<sep>(.+)$/ matches s
GroupLengths(s, maxSep) ==
    {i \in 1..Len(s) : DotPlus(s, 1, i) /\ SepLengths(s, i, maxSep) # {}}

\* s.match(/^(.+?)<sep>(.+)$/), where <sep> is \s+ (maxSep = Len(s)) or one
\* whitespace character (maxSep = 1): the lazy first group is the shortest
\* that matches, the greedy separator the longest; Null without a match
PatternMatch(s, maxSep) ==
    IF GroupLengths(s, maxSep) = {} THEN Null
    ELSE LET i == CHOOSE g \in GroupLengths(s, maxSep) :
                      \A h \in GroupLengths(s, maxSep) : g <= h
             n == CHOOSE m \in SepLengths(s, i, maxSep) :
                      \A h \in SepLengths(s, i, maxSep) : m >= h
         IN  [kind |-> "match",
              g1 |-> SubSeq(s, 1, i),
              g2 |-> SubSeq(s, i + n + 1, Len(s))]

\* the body of the loop over the patterns, for one pattern: the pair if the
\* pattern matches and the trimmed parts validate, else Null
TryPattern(cleanText, maxSep) ==
    LET match == PatternMatch(cleanText, maxSep)
    IN  IF match = Null THEN Null
        ELSE LET part1 == Trim(match.g1)
                 part2 == Trim(match.g2)
                 hasEnglish == TestLatin(part1)
                 hasJapanese == TestJapanese(part2)
             IN  IF hasEnglish /\ hasJapanese
                 THEN Pair(part1, part2)
                 ELSE Null

\* the loop over the three patterns in order: \s+ and [\s U+3000]+ are the
\* same class (U+3000 is whitespace), [U+3000 \s] is one whitespace character
TryPatterns(cleanText) ==
    LET first == TryPattern(cleanText, Len(cleanText))
        second == TryPattern(cleanText, Len(cleanText))
        third == TryPattern(cleanText, 1)
    IN  IF first # Null THEN first
        ELSE IF second # Null THEN second
        ELSE third

\* parseVocabulary of the first api/check-tweets.js: the text is cleaned
\* once, then the patterns are tried on the cleaned text
parseVocabularyPatterns(text) ==
    CHOOSE r \in {TryPatterns(cleanText) : cleanText \in {CleanText(text)}} :
        TRUE

(***************************************************************************)
(* Inputs of the extractor: concatenations of at most MaxTokens tokens     *)
(***************************************************************************)

MaxTokens == 4

\* "http", "s", "://", " ", "@", "#", "@s", ".", U+732B (cat), U+3000
\* (ideographic space), U+3001 (ideographic comma)
Tokens ==
    << HTTP, <<115>>, SLASHES, <<32>>, <<64>>, <<35>>, <<64, 115>>, <<46>>,
       <<29483>>, <<12288>>, <<12289>> >>

RECURSIVE Concat(_)
Concat(ts) == IF ts = <<>> THEN <<>> ELSE Tokens[Head(ts)] \o Concat(Tail(ts))

TokenSeqs == UNION {[1..n -> 1..Len(Tokens)] : n \in 0..MaxTokens}

\* input, cleaned, result: the argument, the cleaned text and the return
\* value of one call of the extractor; phase: how far that call has got
\* variants: the return values of the three parseVocabulary of the source
\*   for the input, in the order of the source; <<>> before they are called
VARIABLES input, phase, cleaned, result, variants

parseVars == <<input, phase, cleaned, result, variants>>

(***************************************************************************)
(* The polling driver, twitter-monitor-server-env.js                       *)
(***************************************************************************)

MaxTweets == 2
MaxRuns == 3

\* 'max_results': '10'
MaxResults == 10

\* post texts: "s <cat>", ".<cat>s", "s"
TweetTexts == { <<115, 32, 29483>>, <<46, 29483, 115>>, <<115>> }

\* const vocabulary = parseVocabulary(tweet.text), for each post text
Vocabulary == [text \in TweetTexts |-> parseVocabularyMonitor(text)]

Runs == 1..MaxRuns

\* timeline: the texts of the posts of the account, oldest first; the id of
\*   a post is its position
\* lastTweetIdFile: the content of last_tweet_id.txt, 0 when the file does
\*   not exist
\* store: the documents of the collection, in order of creation
\* pc, since, sortedTweets, idx, vocabulary, found: for each call of
\*   monitorTweets its position, its lastTweetId, its sortedTweets, the
\*   position of its loop, its vocabulary and, while createDocument is
\*   awaited, the existing.total that uploadToAppwrite read
\* status: for each call of monitorTweets the status that its last
\*   uploadToAppwrite returned
\* errored: the id of the newest post for which an uploadToAppwrite has
\*   returned status 'error', 0 when none has
VARIABLES timeline, lastTweetIdFile, store,
          pc, since, sortedTweets, idx, vocabulary, found, status, errored

monitorVars == <<timeline, lastTweetIdFile, store,
                 pc, since, sortedTweets, idx, vocabulary, found, status,
                 errored>>

\* The request handler of api/check-tweets.js
\* version: which of the two api/check-tweets.js of the source is deployed
\* hpc: the position of the invocation of the handler
\* tweetsData: tweetsData.data, the ids of the posts of the response
\* hidx: the position of the for loop in tweetsData
\* parsed: the parsed of the iteration that awaits the store
\* uploadedCount, skippedCount, errorCount, results: the locals of the loop
\* res: the response the handler has sent, [kind |-> "none"] before it
VARIABLES version, hpc, tweetsData, hidx, parsed,
          uploadedCount, skippedCount, errorCount, results, res

handlerVars == <<version, hpc, tweetsData, hidx, parsed,
                 uploadedCount, skippedCount, errorCount, results, res>>

vars == <<input, phase, cleaned, result, variants,
          timeline, lastTweetIdFile, store,
          pc, since, sortedTweets, idx, vocabulary, found, status, errored,
          version, hpc, tweetsData, hidx, parsed,
          uploadedCount, skippedCount, errorCount, results, res>>

\* no request has reached the handler
HandlerIdle ==
    /\ hpc = "idle"
    /\ tweetsData = <<>>
    /\ hidx = 0
    /\ parsed = Null
    /\ uploadedCount = 0
    /\ skippedCount = 0
    /\ errorCount = 0
    /\ results = <<>>
    /\ res = [kind |-> "none"]

InitMonitor ==
    /\ timeline = <<>>
    /\ lastTweetIdFile = 0
    /\ store = <<>>
    /\ pc = [r \in Runs |-> "idle"]
    /\ since = [r \in Runs |-> 0]
    /\ sortedTweets = [r \in Runs |-> <<>>]
    /\ idx = [r \in Runs |-> 0]
    /\ vocabulary = [r \in Runs |-> Null]
    /\ found = [r \in Runs |-> 0]
    /\ status = [r \in Runs |-> "none"]
    /\ errored = 0

InitParse ==
    /\ input \in {Concat(ts) : ts \in TokenSeqs}
    /\ phase = "start"
    /\ cleaned = <<>>
    /\ result = Null
    /\ variants = <<>>
    /\ InitMonitor
    /\ version = "split"
    /\ HandlerIdle

\* one call of the extractor on the input
Extract ==
    /\ phase = "start"
    /\ result' = parseVocabulary(input)
    /\ phase' = "extracted"
    /\ UNCHANGED <<input, cleaned, variants>>
    /\ UNCHANGED monitorVars
    /\ UNCHANGED handlerVars

\* one application of the preprocessing to the input
Preprocess ==
    /\ phase = "start"
    /\ cleaned' = CleanText(input)
    /\ phase' = "cleaned"
    /\ UNCHANGED <<input, result, variants>>
    /\ UNCHANGED monitorVars
    /\ UNCHANGED handlerVars

\* the three parseVocabulary of the source are called on the input
ExtractVariants ==
    /\ phase = "start"
    /\ variants' = << parseVocabularyPatterns(input),
                      parseVocabulary(input),
                      parseVocabularyMonitor(input) >>
    /\ phase' = "compared"
    /\ UNCHANGED <<input, cleaned, result>>
    /\ UNCHANGED monitorVars
    /\ UNCHANGED handlerVars

NextParse == Extract \/ Preprocess \/ ExtractVariants

SpecParse == InitParse /\ [][NextParse]_vars

Init ==
    /\ input = <<>>
    /\ phase = "start"
    /\ cleaned = <<>>
    /\ result = Null
    /\ variants = <<>>
    /\ InitMonitor
    /\ version = "split"
    /\ HandlerIdle

\* variant of Reverse that leaves the list in the order of the response
Reverse_Keep(s) == s

\* Array.prototype.reverse
RECURSIVE Reverse(_)
Reverse(s) == IF s = <<>> THEN <<>> ELSE Reverse(Tail(s)) \o <<Head(s)>>

\* the response of the posts endpoint: the ids of the posts after sinceId,
\* newest first, at most max_results of them
TweetsAfter(sinceId) ==
    LET n == Len(timeline)
        count == IF n - sinceId < MaxResults THEN n - sinceId ELSE MaxResults
    IN  [k \in 1..count |-> n + 1 - k]

\* existing.total of listDocuments with Query.equal('english', english)
Total(docs, english) ==
    Cardinality({k \in 1..Len(docs) : docs[k].english = english})

\* the position of the first post of batch, from position i on, that the
\* extractor accepts; Len(batch) + 1 if there is none
RECURSIVE NextVocabulary(_, _)
NextVocabulary(batch, i) ==
    IF i > Len(batch) \/ Vocabulary[timeline[batch[i]]] # Null
    THEN i
    ELSE NextVocabulary(batch, i + 1)

\* the for loop of monitorTweets from position i of batch up to its next
\* await: posts that are not vocabulary are skipped and the cursor saved after
\* each of them; cur is the cursor saved last and st the status the last
\* uploadToAppwrite returned. When the loop ends the call returns and its
\* local variables are gone.
RunLoop(r, batch, i, cur, st) ==
    LET j == NextVocabulary(batch, i)
    IN  /\ lastTweetIdFile' = IF j > i THEN batch[j - 1] ELSE cur
        /\ status' = [status EXCEPT ![r] = st]
        /\ found' = [found EXCEPT ![r] = 0]
        /\ IF j > Len(batch)
           THEN /\ pc' = [pc EXCEPT ![r] = "done"]
                /\ since' = [since EXCEPT ![r] = 0]
                /\ sortedTweets' = [sortedTweets EXCEPT ![r] = <<>>]
                /\ idx' = [idx EXCEPT ![r] = 0]
                /\ vocabulary' = [vocabulary EXCEPT ![r] = Null]
           ELSE /\ pc' = [pc EXCEPT ![r] = "list"]
                /\ since' = since
                /\ sortedTweets' = [sortedTweets EXCEPT ![r] = batch]
                /\ idx' = [idx EXCEPT ![r] = j]
                /\ vocabulary' = [vocabulary EXCEPT ![r] =
                                    Vocabulary[timeline[batch[j]]]]

\* the account publishes a post
PostTweet ==
    /\ Len(timeline) < MaxTweets
    /\ \E text \in TweetTexts : timeline' = Append(timeline, text)
    /\ UNCHANGED <<lastTweetIdFile, store, pc, since, sortedTweets, idx,
                   vocabulary, found, status, errored>>
    /\ UNCHANGED parseVars
    /\ UNCHANGED handlerVars

\* monitorTweets is called: it reads the cursor and sends the request for the
\* posts
BeginRun(r) ==
    /\ pc[r] = "idle"
    /\ since' = [since EXCEPT ![r] = lastTweetIdFile]
    /\ pc' = [pc EXCEPT ![r] = "fetch"]
    /\ UNCHANGED <<timeline, lastTweetIdFile, store, sortedTweets, idx,
                   vocabulary, found, status, errored>>
    /\ UNCHANGED parseVars
    /\ UNCHANGED handlerVars

\* the initial check of startMonitoring (run 1), awaited before the timer is
\* set, and the timer callbacks, which do not wait for each other
StartRun(r) ==
    /\ \A q \in 1..(r - 1) : pc[q] # "idle"
    /\ r > 1 => pc[1] = "done"
    /\ BeginRun(r)

\* a caller that starts a run only when the previous run has ended
StartRunSequential(r) ==
    /\ \A q \in 1..(r - 1) : pc[q] = "done"
    /\ BeginRun(r)

\* monitorTweets after fetchRecentTweets has returned tweets: it returns on
\* an empty list, else reverses the list and enters the loop
AfterFetch(r, tweets) ==
    IF Len(tweets) = 0
    THEN /\ pc' = [pc EXCEPT ![r] = "done"]
         /\ since' = [since EXCEPT ![r] = 0]
         /\ UNCHANGED <<lastTweetIdFile, sortedTweets, idx, vocabulary>>
         /\ UNCHANGED <<found, status>>
    ELSE RunLoop(r, Reverse(tweets), 1, lastTweetIdFile, status[r])

\* the answer of the posts endpoint arrives: with an OK response
\* fetchRecentTweets returns data.data and monitorTweets goes on; a response
\* that is not OK, or a fetch that throws, takes fetchRecentTweets to its
\* error path (the text of the response is awaited, then the error is thrown
\* to the catch block)
FetchReturn(r) ==
    /\ pc[r] = "fetch"
    /\ \E ok \in BOOLEAN :
          IF ok
          THEN AfterFetch(r, TweetsAfter(since[r]))
          ELSE /\ pc' = [pc EXCEPT ![r] = "text"]
               /\ UNCHANGED <<lastTweetIdFile, since, sortedTweets, idx,
                              vocabulary, found, status>>
    /\ UNCHANGED <<timeline, store, errored>>
    /\ UNCHANGED parseVars
    /\ UNCHANGED handlerVars

\* variant of the catch block that sends the request once more and returns
\* the posts of the second response
CatchResult_Retry(sinceId) == TweetsAfter(sinceId)

\* what the catch block of fetchRecentTweets returns: []
CatchResult(sinceId) == <<>>

\* the catch block of fetchRecentTweets returns and monitorTweets goes on
FetchFails(r) ==
    /\ pc[r] = "text"
    /\ AfterFetch(r, CatchResult(since[r]))
    /\ UNCHANGED <<timeline, store, errored>>
    /\ UNCHANGED parseVars
    /\ UNCHANGED handlerVars

\* the end of uploadToAppwrite with status st for the post at idx[r]:
\* monitorTweets saves the id of the post and goes on with the loop
AfterUpload(r, st) ==
    LET tweetId == sortedTweets[r][idx[r]]
    IN  /\ RunLoop(r, sortedTweets[r], idx[r] + 1, tweetId, st)
        /\ errored' = IF st = "error" /\ tweetId > errored
                      THEN tweetId
                      ELSE errored

\* variant of ListReturn that creates the document whatever existing.total is
ListReturn_NoCheck(r) ==
    /\ pc[r] = "list"
    /\ \E ok \in BOOLEAN :
          IF ok
          THEN /\ found' = [found EXCEPT ![r] =
                               Total(store, vocabulary[r].english)]
               /\ pc' = [pc EXCEPT ![r] = "create"]
               /\ UNCHANGED <<lastTweetIdFile, since, sortedTweets, idx,
                              vocabulary, status, errored>>
          ELSE AfterUpload(r, "error")
    /\ UNCHANGED <<timeline, store>>
    /\ UNCHANGED parseVars
    /\ UNCHANGED handlerVars

\* variant of ListReturn that tests existing.total > 1
ListReturn_OffByOne(r) ==
    /\ pc[r] = "list"
    /\ \E ok \in BOOLEAN :
          IF ok
          THEN IF Total(store, vocabulary[r].english) > 1
               THEN AfterUpload(r, "exists")
               ELSE /\ found' = [found EXCEPT ![r] =
                                    Total(store, vocabulary[r].english)]
                    /\ pc' = [pc EXCEPT ![r] = "create"]
                    /\ UNCHANGED <<lastTweetIdFile, since, sortedTweets,
                                   idx, vocabulary, status, errored>>
          ELSE AfterUpload(r, "error")
    /\ UNCHANGED <<timeline, store>>
    /\ UNCHANGED parseVars
    /\ UNCHANGED handlerVars

\* listDocuments returns or throws: on existing.total > 0 uploadToAppwrite
\* returns 'exists', on a throw 'error', else it sends createDocument
ListReturn(r) ==
    /\ pc[r] = "list"
    /\ \E ok \in BOOLEAN :
          IF ok
          THEN IF Total(store, vocabulary[r].english) > 0
               THEN AfterUpload(r, "exists")
               ELSE /\ found' = [found EXCEPT ![r] =
                                    Total(store, vocabulary[r].english)]
                    /\ pc' = [pc EXCEPT ![r] = "create"]
                    /\ UNCHANGED <<lastTweetIdFile, since, sortedTweets,
                                   idx, vocabulary, status, errored>>
          ELSE AfterUpload(r, "error")
    /\ UNCHANGED <<timeline, store>>
    /\ UNCHANGED parseVars
    /\ UNCHANGED handlerVars

\* createDocument returns, the document created, or throws
CreateReturn(r) ==
    /\ pc[r] = "create"
    /\ \E ok \in BOOLEAN :
          IF ok
          THEN /\ store' = Append(store,
                              [english |-> vocabulary[r].english,
                               japanese |-> vocabulary[r].japanese])
               /\ AfterUpload(r, "uploaded")
          ELSE /\ UNCHANGED store
               /\ AfterUpload(r, "error")
    /\ UNCHANGED timeline
    /\ UNCHANGED parseVars
    /\ UNCHANGED handlerVars

Next ==
    \/ PostTweet
    \/ \E r \in Runs : StartRun(r)
    \/ \E r \in Runs : FetchReturn(r)
    \/ \E r \in Runs : FetchFails(r)
    \/ \E r \in Runs : ListReturn(r)
    \/ \E r \in Runs : CreateReturn(r)

Spec == Init /\ [][Next]_vars

NextSequential ==
    \/ PostTweet
    \/ \E r \in Runs : StartRunSequential(r)
    \/ \E r \in Runs : FetchReturn(r)
    \/ \E r \in Runs : FetchFails(r)
    \/ \E r \in Runs : ListReturn(r)
    \/ \E r \in Runs : CreateReturn(r)

SpecSequential == Init /\ [][NextSequential]_vars

(***************************************************************************)
(* The request handler, api/check-tweets.js (both versions)                *)
(***************************************************************************)

\* the two api/check-tweets.js: the first has the pattern-based
\* parseVocabulary, the second the one that splits at the first target-script
\* character
Versions == {"patterns", "split"}

\* max_results=5 and max_results=15 in twitterUrl
MaxResultsPatterns == 5
MaxResultsSplit == 15

\* const parsed = parseVocabulary(tweet.text), for each version and post text
Parsed ==
    [v \in Versions |->
        [text \in TweetTexts |->
            IF v = "patterns"
            THEN parseVocabularyPatterns(text)
            ELSE parseVocabulary(text)]]

\* the response of the posts endpoint to the handler: the ids of the latest
\* posts, newest first, at most max_results of them
LatestTweets ==
    LET n == Len(timeline)
        maxResults == IF version = "patterns" THEN MaxResultsPatterns
                      ELSE MaxResultsSplit
        count == IF n < maxResults THEN n ELSE maxResults
    IN  [k \in 1..count |-> n + 1 - k]

\* the position of the first post of data, from position i on, that
\* parseVocabulary accepts; Len(data) + 1 if there is none
RECURSIVE NextParsed(_, _)
NextParsed(data, i) ==
    IF i > Len(data) \/ Parsed[version][timeline[data[i]]] # Null
    THEN i
    ELSE NextParsed(data, i + 1)

\* the for loop of the handler from position i of data up to its next await:
\* every post that does not parse increments skippedCount; when the loop ends
\* the summary is sent. up, sk, er and rs are uploadedCount, skippedCount,
\* errorCount and results on entry.
HandlerLoop(data, i, up, sk, er, rs) ==
    \E j \in {NextParsed(data, i)} :
        /\ tweetsData' = data
        /\ uploadedCount' = up
        /\ skippedCount' = sk + (j - i)
        /\ errorCount' = er
        /\ results' = rs
        /\ IF j > Len(data)
           THEN /\ hpc' = "returned"
                /\ hidx' = hidx
                /\ parsed' = Null
                /\ res' = [kind |-> "summary",
                           status |-> 200,
                           success |-> TRUE,
                           tweetsChecked |-> Len(data),
                           uploaded |-> up,
                           skipped |-> sk + (j - i),
                           errors |-> er,
                           results |-> rs]
           ELSE /\ hpc' = "list"
                /\ hidx' = j
                /\ parsed' = Parsed[version][timeline[data[j]]]
                /\ res' = res

\* the entry that results.push adds for the post of this iteration
Entry(st) ==
    [english |-> parsed.english, japanese |-> parsed.japanese, status |-> st]

\* variant of AfterPost in which the catch block sends the summary at once
\* instead of going on with the next post
AfterPost_StopOnError(st) ==
    IF st = "error"
    THEN HandlerLoop(tweetsData, Len(tweetsData) + 1, uploadedCount,
                     skippedCount, errorCount + 1, Append(results, Entry(st)))
    ELSE HandlerLoop(tweetsData, hidx + 1,
                     IF st = "uploaded" THEN uploadedCount + 1
                     ELSE uploadedCount,
                     IF st = "existing" THEN skippedCount + 1
                     ELSE skippedCount,
                     errorCount, Append(results, Entry(st)))

\* the end of the iteration for the post at hidx with status st: the counter
\* of the status is incremented, the entry pushed, and the loop goes on
AfterPost(st) ==
    HandlerLoop(tweetsData, hidx + 1,
                IF st = "uploaded" THEN uploadedCount + 1 ELSE uploadedCount,
                IF st = "existing" THEN skippedCount + 1 ELSE skippedCount,
                IF st = "error" THEN errorCount + 1 ELSE errorCount,
                Append(results, Entry(st)))

\* a request arrives: OPTIONS is answered at once, a missing credential
\* throws to the outer catch block, else the posts are requested
Request ==
    /\ hpc = "idle"
    /\ \E method \in {"GET", "OPTIONS"}, configured \in BOOLEAN :
          IF method = "OPTIONS"
          THEN /\ hpc' = "returned"
               /\ res' = [kind |-> "end", status |-> 200]
          ELSE IF ~configured
          THEN /\ hpc' = "returned"
               /\ res' = [kind |-> "fatal", status |-> 500,
                          success |-> FALSE]
          ELSE /\ hpc' = "fetch"
               /\ res' = res
    /\ UNCHANGED <<version, tweetsData, hidx, parsed, uploadedCount,
                   skippedCount, errorCount, results>>
    /\ UNCHANGED monitorVars
    /\ UNCHANGED parseVars

\* the answer of the posts endpoint arrives: 429 is answered with 'Rate
\* limited', another failure throws to the outer catch block, an empty list
\* is answered with 'No tweets found', else the loop starts
HandlerFetchReturn ==
    /\ hpc = "fetch"
    /\ \E answer \in {"ok", "429", "failed"} :
          IF answer = "429"
          THEN /\ hpc' = "returned"
               /\ res' = [kind |-> "rateLimited", status |-> 429]
               /\ UNCHANGED <<tweetsData, hidx, parsed, uploadedCount,
                              skippedCount, errorCount, results>>
          ELSE IF answer = "failed"
          THEN /\ hpc' = "returned"
               /\ res' = [kind |-> "fatal", status |-> 500,
                          success |-> FALSE]
               /\ UNCHANGED <<tweetsData, hidx, parsed, uploadedCount,
                              skippedCount, errorCount, results>>
          ELSE IF Len(LatestTweets) = 0
          THEN /\ hpc' = "returned"
               /\ res' = [kind |-> "noTweets", status |-> 200,
                          uploaded |-> 0]
               /\ UNCHANGED <<tweetsData, hidx, parsed, uploadedCount,
                              skippedCount, errorCount, results>>
          ELSE HandlerLoop(LatestTweets, 1, 0, 0, 0, <<>>)
    /\ UNCHANGED version
    /\ UNCHANGED monitorVars
    /\ UNCHANGED parseVars

\* listDocuments returns or throws: on existing.total > 0 the post is
\* counted as skipped with an 'existing' entry, on a throw as an error, else
\* createDocument is sent
HandlerListReturn ==
    /\ hpc = "list"
    /\ \E ok \in BOOLEAN :
          IF ~ok
          THEN AfterPost("error")
          ELSE IF Total(store, parsed.english) > 0
          THEN AfterPost("existing")
          ELSE /\ hpc' = "create"
               /\ UNCHANGED <<tweetsData, hidx, parsed, uploadedCount,
                              skippedCount, errorCount, results, res>>
    /\ UNCHANGED <<version, store>>
    /\ UNCHANGED <<timeline, lastTweetIdFile, pc, since, sortedTweets, idx,
                   vocabulary, found, status, errored>>
    /\ UNCHANGED parseVars

\* createDocument returns, the document created, or throws
HandlerCreateReturn ==
    /\ hpc = "create"
    /\ \E ok \in BOOLEAN :
          IF ok
          THEN /\ store' = Append(store,
                              [english |-> parsed.english,
                               japanese |-> parsed.japanese])
               /\ AfterPost("uploaded")
          ELSE /\ store' = store
               /\ AfterPost("error")
    /\ UNCHANGED version
    /\ UNCHANGED <<timeline, lastTweetIdFile, pc, since, sortedTweets, idx,
                   vocabulary, found, status, errored>>
    /\ UNCHANGED parseVars

\* one invocation of either version of the handler on any timeline
InitHandler ==
    /\ input = <<>>
    /\ phase = "start"
    /\ cleaned = <<>>
    /\ result = Null
    /\ variants = <<>>
    /\ InitMonitor
    /\ version \in Versions
    /\ HandlerIdle

NextHandler ==
    \/ PostTweet
    \/ Request
    \/ HandlerFetchReturn
    \/ HandlerListReturn
    \/ HandlerCreateReturn

SpecHandler == InitHandler /\ [][NextHandler]_vars

(***************************************************************************)
(* Properties of the extractor                                             *)
(***************************************************************************)

\* the target-script ranges as the specification states them: Hiragana
\* U+3040-U+309F, Katakana U+30A0-U+30FF, CJK U+4E00-U+9FAF
InTargetRanges(c) ==
    \/ (12352 <= c /\ c <= 12447)
    \/ (12448 <= c /\ c <= 12543)
    \/ (19968 <= c /\ c <= 40879)

HasTargetChar(s) == \E k \in 1..Len(s) : InTargetRanges(s[k])
HasLatinLetter(s) ==
    \E k \in 1..Len(s) :
        (65 <= s[k] /\ s[k] <= 90) \/ (97 <= s[k] /\ s[k] <= 122)

Extracted == phase = "extracted"
ReturnedPair == Extracted /\ result.kind = "pair"

\* the input read as latinTerm + targetScriptChar + rest, split before its
\* k-th character
LatinTermAt(k) == SubSeq(input, 1, k - 1)
TargetAndRestAt(k) == SubSeq(input, k, Len(input))

\* C1 as stated: for every input latinTerm + targetScriptChar + rest where
\* latinTerm contains a Latin letter, extract returns
\* {term: trim(latinTerm), translation: trim(targetScriptChar + rest)}.
C1_AsStated ==
    Extracted =>
        \A k \in 1..Len(input) :
            (InTargetRanges(input[k]) /\ HasLatinLetter(LatinTermAt(k)))
            => result = Pair(Trim(LatinTermAt(k)), Trim(TargetAndRestAt(k)))

\* C1 amended: for every input latinTerm + targetScriptChar + rest where
\* latinTerm contains a Latin letter and no target-script character, and the
\* input contains no URL, mention or hashtag (the three removals leave it
\* unchanged), extract returns
\* {term: trim(latinTerm), translation: trim(targetScriptChar + rest)}.
C1_PlainInput ==
    Extracted =>
        \A k \in 1..Len(input) :
            ( /\ InTargetRanges(input[k])
              /\ HasLatinLetter(LatinTermAt(k))
              /\ ~HasTargetChar(LatinTermAt(k))
              /\ StripAll(input) = input )
            => result = Pair(Trim(LatinTermAt(k)), Trim(TargetAndRestAt(k)))

\* an input of the form of C1 without URL, mention or hashtag, with whitespace
\* to trim on both sides of the term, has been extracted
C1_Witness ==
    /\ Extracted
    /\ \E k \in 3..Len(input) :
          /\ InTargetRanges(input[k])
          /\ HasLatinLetter(LatinTermAt(k))
          /\ ~HasTargetChar(LatinTermAt(k))
          /\ StripAll(input) = input
          /\ IsSpace(input[1])
          /\ IsSpace(input[k - 1])
          /\ result.kind = "pair"

\* C2: for every input without a character in the target-script ranges,
\* extract returns absence (null).
C2_NoTargetScriptIsAbsence ==
    (Extracted /\ ~HasTargetChar(input)) => result = Null

\* Latin text followed by a URL, no target-script character: absence returned
C2_Witness ==
    /\ Extracted
    /\ ~HasTargetChar(input)
    /\ HasLatinLetter(input)
    /\ \E i \in 1..Len(input) : UrlMatchLen(input, i) > 0
    /\ CleanText(input) # <<>>
    /\ result = Null

\* the candidate term: the trimmed cleaned text before its first
\* target-script character
RECURSIVE BeforeTarget(_)
BeforeTarget(s) ==
    IF s = <<>> \/ InTargetRanges(Head(s)) THEN <<>>
    ELSE <<Head(s)>> \o BeforeTarget(Tail(s))

\* the candidate translation: the cleaned text from its first target-script
\* character onward
RECURSIVE FromTarget(_)
FromTarget(s) ==
    IF s = <<>> \/ InTargetRanges(Head(s)) THEN s ELSE FromTarget(Tail(s))

\* C3: whenever extract returns a pair, the term contains a Latin letter, the
\* translation contains a target-script character and neither is empty after
\* trimming; an input whose candidate term has no Latin letter yields absence.
C3_PairIsValid ==
    /\ ReturnedPair =>
          /\ HasLatinLetter(result.english)
          /\ HasTargetChar(result.japanese)
          /\ Trim(result.english) # <<>>
          /\ Trim(result.japanese) # <<>>
    /\ (Extracted /\ ~HasLatinLetter(BeforeTarget(CleanText(input))))
          => result = Null

\* an input with a target-script character whose candidate term is not empty
\* and has no Latin letter has been extracted
C3_Witness ==
    /\ Extracted
    /\ HasTargetChar(input)
    /\ Trim(BeforeTarget(CleanText(input))) # <<>>
    /\ ~HasLatinLetter(BeforeTarget(CleanText(input)))
    /\ HasLatinLetter(input)
    /\ result = Null

\* no match of /https?:\/\/\S+/ in s
NoUrlIn(s) == \A i \in 0..Len(s) : UrlMatchLen(s, i) = 0

\* C4 as stated: preprocessing is idempotent, a second application to the
\* output of the first yields the same string.
C4_AsStated ==
    phase = "cleaned" => CleanText(cleaned) = cleaned

\* C4 amended: preprocessing is idempotent on every input whose cleaned text
\* contains no URL match (removing a mention or hashtag can join the two
\* halves of a URL, which only a second application removes).
C4_IdempotentWithoutFusedUrl ==
    (phase = "cleaned" /\ NoUrlIn(cleaned)) => CleanText(cleaned) = cleaned

\* the first application removed a mention and trimmed whitespace and left a
\* non-empty text without URL
C4_Witness ==
    /\ phase = "cleaned"
    /\ NoUrlIn(cleaned)
    /\ cleaned # <<>>
    /\ RemoveMentions(RemoveUrls(input)) # RemoveUrls(input)
    /\ StripAll(input) # cleaned

\* C5: in a returned pair the term is the trimmed cleaned text before the
\* first target-script character and the translation the trimmed cleaned text
\* from it onward; the term has no target-script character and the
\* translation begins with one.
C5_SplitAtFirstTargetChar ==
    ReturnedPair =>
        /\ result.english = Trim(BeforeTarget(CleanText(input)))
        /\ result.japanese = Trim(FromTarget(CleanText(input)))
        /\ ~HasTargetChar(result.english)
        /\ InTargetRanges(Head(result.japanese))

\* a pair was returned for an input with two separate target-script runs
C5_Witness ==
    /\ ReturnedPair
    /\ \E k \in 1..Len(result.japanese) : ~InTargetRanges(result.japanese[k])
    /\ InTargetRanges(result.japanese[Len(result.japanese)])

\* C6: for every input string extract completes without raising and returns
\* a pair or absence.
C6_NeverRaises ==
    Extracted => result.kind \in {"pair", "null"}

\* a non-empty input that cleans to the empty string has been extracted
C6_Witness ==
    /\ Extracted
    /\ input # <<>>
    /\ CleanText(input) = <<>>
    /\ result = Null

PunctOrSpace(c) == IsSpace(c) \/ IsPunct(c)

\* C7 as stated: in every returned pair neither the term nor the translation
\* starts or ends with a whitespace or punctuation character.
C7_AsStated ==
    ReturnedPair =>
        /\ ~PunctOrSpace(Head(result.english))
        /\ ~PunctOrSpace(result.english[Len(result.english)])
        /\ ~PunctOrSpace(Head(result.japanese))
        /\ ~PunctOrSpace(result.japanese[Len(result.japanese)])

\* C7 amended: in every returned pair neither the term nor the translation
\* starts or ends with a whitespace character (punctuation is kept).
C7_WhitespaceTrimmed ==
    ReturnedPair =>
        /\ ~IsSpace(Head(result.english))
        /\ ~IsSpace(result.english[Len(result.english)])
        /\ ~IsSpace(Head(result.japanese))
        /\ ~IsSpace(result.japanese[Len(result.japanese)])

\* a pair was returned for an input without URL, mention or hashtag that has
\* whitespace between the term and the translation and at its end
C7_Witness ==
    /\ ReturnedPair
    /\ StripAll(input) = input
    /\ IsSpace(input[Len(input)])
    /\ Len(result.english) + Len(result.japanese) + 2 <= Len(input)

(***************************************************************************)
(* Properties of the duplicate check and of the polling driver             *)
(***************************************************************************)

\* every term of the store has exactly one document
OneDocumentPerTerm ==
    \A k \in 1..Len(store) : Total(store, store[k].english) = 1

\* in this step the uploadToAppwrite of run r returns
UploadReturns(r) ==
    /\ pc[r] \in {"list", "create"}
    /\ pc'[r] \notin {"list", "create"} \/ idx'[r] # idx[r]

\* an upload that returns 'uploaded' found no document of its term and created
\* one, an upload that returns 'exists' found the one document of its term and
\* created none; without a store error the status is decided by the store
UploadChecksThenInserts(r) ==
    LET term == vocabulary[r].english
    IN  UploadReturns(r) =>
          /\ status'[r] \in {"uploaded", "exists", "error"}
          /\ status'[r] = "uploaded" =>
                Total(store, term) = 0 /\ Total(store', term) = 1
          /\ status'[r] = "exists" =>
                Total(store, term) = 1 /\ store' = store
          /\ status'[r] = "error" => store' = store

\* C8: with a single caller running the check-then-insert sequentially the
\* store holds at most one document per term: an upload that finds no document
\* of its term inserts one and returns 'uploaded', a later upload of the term
\* finds it and returns 'exists' without inserting, so a query by an inserted
\* term has exactly one match.
C8_SequentialUploadsNeverDuplicate ==
    /\ []OneDocumentPerTerm
    /\ [][\A r \in Runs : UploadChecksThenInserts(r)]_vars

\* a term was uploaded by the first run, and the upload of the same term by a
\* later run returned 'exists' with exactly one document in the store
C8_Witness ==
    \E r \in Runs :
        /\ r > 1
        /\ status[r] = "exists"
        /\ status[1] = "uploaded"
        /\ pc[1] = "done"
        /\ Len(store) = 1

\* the number of callers that can be in flight together: the initial check
\* ends before the timer starts
MaxOverlap == IF MaxRuns > 2 THEN MaxRuns - 1 ELSE 1

\* C9: the duplicate check and the insert are not atomic: a caller awaits
\* createDocument only after a check that found no document, but by then the
\* check can be stale, so concurrent callers can each insert the same term
\* (once per caller) and a state with two documents of one term is reachable.
C9_CheckAndInsertNotAtomic ==
    /\ \A r \in Runs : pc[r] = "create" => found[r] = 0
    /\ \A k \in 1..Len(store) :
          Total(store, store[k].english) <= MaxOverlap

\* two runs have both uploaded the same term: the store holds it twice
C9_Witness ==
    \E r1, r2 \in Runs :
        /\ r1 # r2
        /\ status[r1] = "uploaded" /\ status[r2] = "uploaded"
        /\ Len(store) = 2
        /\ store[1].english = store[2].english

\* C10: every document the polling driver inserts has an english field with a
\* Latin letter and a japanese field with a target-script character.
C10_InsertedPairsValid ==
    \A k \in 1..Len(store) :
        /\ HasLatinLetter(store[k].english)
        /\ HasTargetChar(store[k].japanese)

(***************************************************************************)
(* Properties of the cursor                                                *)
(***************************************************************************)

\* run r is inside the for loop of monitorTweets
InLoop(r) == pc[r] \in {"list", "create"}

\* while run r is in its loop its posts are in ascending order of id, the
\* post it is uploading is the oldest vocabulary post not yet processed, and
\* the cursor is the id of the post before it, or still the cursor the run
\* read when it has processed none
CursorFollowsLoop(r) ==
    LET batch == sortedTweets[r]
    IN  InLoop(r) =>
          /\ \A k \in 1..(Len(batch) - 1) : batch[k] < batch[k + 1]
          /\ idx[r] \in 1..Len(batch)
          /\ lastTweetIdFile =
                IF idx[r] > 1 THEN batch[idx[r] - 1] ELSE since[r]

\* the step in which an upload of run r returns saves the id of the post
\* processed last: the post before the next one to upload or, when the step
\* ends the run, the last post of the batch, which is the newest one
CursorSavedAfterEachPost(r) ==
    LET batch == sortedTweets[r]
        processed == IF pc'[r] = "done" THEN Len(batch) ELSE idx'[r] - 1
    IN  /\ UploadReturns(r) =>
              /\ processed >= idx[r]
              /\ lastTweetIdFile' = batch[processed]
              /\ pc'[r] = "done" =>
                    \A k \in 1..Len(batch) : batch[k] <= lastTweetIdFile'
        /\ pc[r] = "fetch" /\ pc'[r] = "done" =>
              lastTweetIdFile' \in {lastTweetIdFile, Len(timeline)}

C14_CursorNeverMovesBack ==
    [][lastTweetIdFile' >= lastTweetIdFile]_vars

\* the fetchRecentTweets of run r returns in this step: after a failure, or
\* with the answer of the endpoint
FetchFailed(r) == pc[r] = "text" /\ pc'[r] # "text"

FetchSucceeded(r) == pc[r] = "fetch" /\ pc'[r] \notin {"fetch", "text"}

\* C12: when the fetch of a run fails, fetchRecentTweets returns [] and the
\* run ends with the cursor and the store as they were; the same holds when
\* the feed has no post after the cursor the run read; a run that has ended
\* does nothing more (no retry).
C12_FailedFetchChangesNothing ==
    [][\A r \in Runs :
          /\ (FetchFailed(r) \/
                (FetchSucceeded(r) /\ Len(timeline) <= since[r])) =>
               (/\ pc'[r] = "done"
                /\ lastTweetIdFile' = lastTweetIdFile
                /\ store' = store)
          /\ (pc[r] = "fetch" /\ pc'[r] = "text") =>
               (lastTweetIdFile' = lastTweetIdFile /\ store' = store)
          /\ (pc[r] = "done") => (pc'[r] = "done")]_vars

\* the fetch of a run has failed while the timeline has posts after the
\* cursor that the run read, and the cursor is still that one
C12_Witness ==
    \E r \in Runs :
        /\ pc[r] = "text"
        /\ Len(timeline) > since[r]
        /\ lastTweetIdFile = since[r]

\* the upload of run r returns status 'error' in this step
UploadFails(r) == UploadReturns(r) /\ status'[r] = "error"

\* a poll starts in this step
PollStarts(r) == pc[r] = "idle" /\ pc'[r] = "fetch"

\* C13: the cursor is advanced past every post whatever the outcome of its
\* upload: the step in which an upload returns 'error' inserts nothing and
\* saves a cursor at or after the post, from then on every post whose upload
\* returned 'error' is at or before the persisted cursor, and every poll that
\* starts later reads a cursor at or after it, so that it fetches only newer
\* posts and does not process the post again.
C13_ErroredPostNeverRetried ==
    /\ [](errored <= lastTweetIdFile)
    /\ [][\A r \in Runs :
            /\ UploadFails(r) =>
                  /\ store' = store
                  /\ lastTweetIdFile' >= sortedTweets[r][idx[r]]
            /\ PollStarts(r) => since'[r] >= errored]_vars

(***************************************************************************)
(* Properties of the three extractors                                      *)
(***************************************************************************)

\* C16: the three parseVocabulary variants of the source (pattern-based,
\* split at the first target-script character with validation of the parts,
\* the same split with validation of the whole text) return the same result,
\* pair or absence, for every input string.
C16_VariantsAgree ==
    phase = "compared" =>
        variants[1] = variants[2] /\ variants[2] = variants[3]

(***************************************************************************)
(* Properties of the request handler                                       *)
(***************************************************************************)

\* the posts of the response that parse to a pair, in the order of the
\* response
ParsedPosts ==
    SelectSeq(tweetsData,
              LAMBDA id : Parsed[version][timeline[id]] # Null)

\* the number of entries of rs with status st
CountStatus(rs, st) == Cardinality({k \in 1..Len(rs) : rs[k].status = st})

\* C15: in every success summary each fetched post is counted exactly once:
\* uploaded + skipped + errors = tweetsChecked, and results has one entry,
\* with status 'uploaded', 'existing' or 'error', for each post that parsed to
\* a pair, in order, and none for the others; posts after a store error are
\* processed too.
C15_SummaryCountsEveryPost ==
    res.kind = "summary" =>
        /\ res.success
        /\ res.tweetsChecked = Len(tweetsData)
        /\ res.uploaded + res.skipped + res.errors = res.tweetsChecked
        /\ Len(res.results) = Len(ParsedPosts)
        /\ \A k \in 1..Len(res.results) :
              LET pair == Parsed[version][timeline[ParsedPosts[k]]]
              IN  /\ res.results[k].status \in
                        {"uploaded", "existing", "error"}
                  /\ res.results[k].english = pair.english
                  /\ res.results[k].japanese = pair.japanese
        /\ res.uploaded = CountStatus(res.results, "uploaded")
        /\ res.errors = CountStatus(res.results, "error")
        /\ res.skipped = CountStatus(res.results, "existing")
                            + (Len(tweetsData) - Len(ParsedPosts))

\* a summary over two posts in which the upload of the first failed with a
\* store error and the second was uploaded
C15_Witness ==
    /\ res.kind = "summary"
    /\ res.tweetsChecked = 2
    /\ Len(res.results) = 2
    /\ res.results[1].status = "error"
    /\ res.results[2].status = "uploaded"
    /\ res.errors = 1 /\ res.uploaded = 1

====
